---- MODULE Spec2Model ----
(***************************************************************************)
(* Model of the mcp-atlassian CDK application.                             *)
(*                                                                         *)
(* The repository holds two versions of McpAtlassianStack:                 *)
(*   SharedPrivate  cdk/lib/mcp-atlassian-stack.ts : credentials in        *)
(*                  Secrets Manager, reachable only inside the VPC;        *)
(*   PerRequestAlb  unnamed/part_000 : per-request authentication, public  *)
(*                  application load balancer.                             *)
(* One `cdk deploy` runs bin (unnamed/part_002), which runs the stack's    *)
(* constructor top to bottom; every section of the constructor is one      *)
(* action below.  The synthesized stack is then handed to the provisioning *)
(* backend, whose behaviour (apply, health check, circuit-breaker          *)
(* rollback) is taken from the specification and the README.               *)
(***************************************************************************)
EXTENDS Integers, Sequences, FiniteSets, TLC

\* Number of `cdk deploy` invocations in one behaviour.
MaxDeploys == 2

Deployments == 1..MaxDeploys

\* const MCP_PORT = 9000;
MCP_PORT == 9000

\* alb.addListener('McpListener', { port: 80, ... })
LISTENER_PORT == 80

----------------------------------------------------------------------------
(* Strings the code inspects character by character are sequences of       *)
(* one-character strings.                                                   *)

Digits == {"0", "1", "2", "3", "4", "5", "6", "7", "8", "9"}

DigitVal ==
  ("0" :> 0) @@ ("1" :> 1) @@ ("2" :> 2) @@ ("3" :> 3) @@ ("4" :> 4) @@
  ("5" :> 5) @@ ("6" :> 6) @@ ("7" :> 7) @@ ("8" :> 8) @@ ("9" :> 9)

\* /^\d+$/
IsDigits(s) == Len(s) >= 1 /\ \A i \in 1..Len(s) : s[i] \in Digits

RECURSIVE Split(_, _)
\* s.split(sep)
Split(s, sep) ==
  IF \E i \in 1..Len(s) : s[i] = sep
  THEN LET i == CHOOSE k \in 1..Len(s) :
                  s[k] = sep /\ \A j \in 1..(k - 1) : s[j] # sep
       IN  <<SubSeq(s, 1, i - 1)>> \o Split(SubSeq(s, i + 1, Len(s)), sep)
  ELSE <<s>>

RECURSIVE Num(_)
\* decimal value of a digit string
Num(s) ==
  IF Len(s) = 0 THEN 0
  ELSE 10 * Num(SubSeq(s, 1, Len(s) - 1)) + DigitVal[s[Len(s)]]

\* The shape test of ec2.Peer.ipv4: /^(\d{1,3}\.){3}\d{1,3}(\/\d+)?$/
CidrMatch(s) ==
  LET parts == Split(s, "/")
      addr  == Split(parts[1], ".")
  IN  /\ Len(parts) \in {1, 2}
      /\ Len(addr) = 4
      /\ \A k \in 1..4 : IsDigits(addr[k]) /\ Len(addr[k]) <= 3
      /\ Len(parts) = 2 => IsDigits(parts[2])

\* cidrMatch[2]: the (\/\d+) group took part in the match
HasMask(s) == Len(Split(s, "/")) = 2

\* ec2.Peer.ipv4(cidrIp) returns a peer or throws
PeerIpv4Throws(s) == ~CidrMatch(s) \/ ~HasMask(s)

\* A syntactically valid IPv4 CIDR: four octets 0..255 and a prefix 0..32.
ValidIPv4Cidr(s) ==
  /\ CidrMatch(s)
  /\ HasMask(s)
  /\ LET parts == Split(s, "/")
         addr  == Split(parts[1], ".")
     IN  /\ \A k \in 1..4 : Num(addr[k]) <= 255
         /\ Len(parts[2]) <= 2
         /\ Num(parts[2]) <= 32

----------------------------------------------------------------------------
(* Context values (`-c key=value`, cdk.json).  tryGetContext returns        *)
(* undefined for a key that was not supplied.                               *)

Absent == [set |-> FALSE, str |-> <<>>]
Value(s) == [set |-> TRUE, str |-> s]

\* '10.0.0.0/16'
DEFAULT_ALLOWED_CIDR == <<"1", "0", ".", "0", ".", "0", ".", "0", "/", "1", "6">>

Cidr_10_2     == <<"1", "0", ".", "2", ".", "0", ".", "0", "/", "1", "6">>
Cidr_NoMask   == <<"1", "0", ".", "2", ".", "0", ".", "0">>
Cidr_Mask33   == <<"1", "0", ".", "2", ".", "0", ".", "0", "/", "3", "3">>

AllowedCidrInputs ==
  {Absent, Value(Cidr_10_2), Value(Cidr_NoMask), Value(Cidr_Mask33)}

\* VPC names are only passed on, never inspected: plain strings.
AbsentName == [set |-> FALSE, str |-> ""]
ExistingVpcNameInputs ==
  {AbsentName, [set |-> TRUE, str |-> ""], [set |-> TRUE, str |-> "shared-vpc"]}

\* The two keys are read and used independently of each other (the VPC
\* choice never looks at allowedCidr, the ingress rule never at the VPC): a
\* context sets one of them, or both to well-formed values.
Contexts ==
  {c \in [existingVpcName : ExistingVpcNameInputs, allowedCidr : AllowedCidrInputs] :
      \/ c.existingVpcName = AbsentName
      \/ c.allowedCidr = Absent
      \/ (c.existingVpcName.str = "shared-vpc" /\ c.allowedCidr = Value(Cidr_10_2))}

\* The two versions of the stack definition.
SharedPrivate == "cdk/lib/mcp-atlassian-stack.ts"
PerRequestAlb == "unnamed/part_000"
StackFiles == {SharedPrivate, PerRequestAlb}

----------------------------------------------------------------------------
(* The construct tree one run of the constructor builds.                    *)

NoVpc ==
  [kind |-> "none", id |-> "", name |-> "", cidr |-> <<>>, maxAzs |-> 0,
   natGateways |-> 0, subnetConfiguration |-> {}]

NoHealthCheck ==
  [path |-> "", interval |-> 0, timeout |-> 0, retries |-> 0, startPeriod |-> 0]

NoService ==
  [name |-> "", desiredCount |-> 0, securityGroups |-> {}, subnetType |-> "",
   circuitBreaker |-> [enable |-> FALSE, rollback |-> FALSE],
   namespace |-> "", cloudMapName |-> ""]

EmptyTree ==
  [vpc |-> NoVpc, constructs |-> {}, ingress |-> {}, grants |-> {},
   secrets |-> {}, environment |-> {}, command |-> <<>>,
   healthCheck |-> NoHealthCheck, service |-> NoService, listeners |-> {},
   outputs |-> {}, assets |-> {}]

\* A resource the stack declares: construct id, resource type, the physical
\* name the code fixes and the removal policy it sets ("" where it sets none).
\* A description is kept as the sequence of its characters' code points
\* (<<>> where the code gives none).
Construct(id, type, name, policy) ==
  [id |-> id, type |-> type, name |-> name, removalPolicy |-> policy,
   description |-> <<>>]

\* { ..., description: text }
Described(c, text) == [c EXCEPT !.description = text]

\* description of AtlassianCredentials
SecretDescription ==
  <<65, 116, 108, 97, 115, 115, 105, 97, 110, 32, 65, 80, 73, 32, 99,
     114, 101, 100, 101, 110, 116, 105, 97, 108, 115, 32, 102, 111, 114,
     32, 109, 99, 112, 45, 97, 116, 108, 97, 115, 115, 105, 97, 110, 32,
     115, 101, 114, 118, 101, 114>>

\* description of McpSecurityGroup: an em dash (U+2014) in one version of the
\* stack, a hyphen in the other
SgDescription(file) ==
  IF file = SharedPrivate
  THEN
  <<77, 67, 80, 32, 65, 116, 108, 97, 115, 115, 105, 97, 110, 32, 115,
     101, 114, 118, 101, 114, 32, 8212, 32, 105, 110, 98, 111, 117, 110,
     100, 32, 102, 114, 111, 109, 32, 76, 97, 110, 103, 66, 117, 105,
     108, 100, 101, 114, 32, 111, 110, 108, 121>>
  ELSE
  <<77, 67, 80, 32, 65, 116, 108, 97, 115, 115, 105, 97, 110, 32, 115,
     101, 114, 118, 101, 114, 32, 45, 32, 105, 110, 98, 111, 117, 110,
     100, 32, 102, 114, 111, 109, 32, 76, 97, 110, 103, 66, 117, 105,
     108, 100, 101, 114, 32, 111, 110, 108, 121>>

VARIABLES
  stackFile,    \* which version of the stack definition is checked out
  nDeploys,     \* `cdk deploy` invocations so far
  cur,          \* the deployment whose constructor is running (0: none)
  pc,           \* the constructor's position
  local,        \* the constructor's existingVpcName and allowedCidr
  tree,         \* the construct tree built so far
  config,       \* per deployment: the context it was invoked with
  lifecycle,    \* per deployment: Unused, Draft, Resolved, Applying, ...
  error,        \* per deployment: the error it ended with ("" if none)
  plan,         \* per deployment: the synthesized stack
  seen,         \* per deployment: the store's content when it was synthesized
  account,      \* resources that exist in the AWS account
  stackRes,     \* resources the CloudFormation stack manages
  lastGood,     \* topology of the last deployment that became healthy
  secretValue,  \* content of mcp-atlassian/credentials: none, placeholder, real
  assetRepo     \* images in the ECR repository for CDK assets (cdk bootstrap)

ctor    == <<cur, pc, local, tree>>
deploys == <<nDeploys, config, lifecycle, error, plan, seen>>
backend == <<account, stackRes, lastGood, secretValue, assetRepo>>
vars    == <<stackFile, ctor, deploys, backend>>

NoLocal == [existingVpcName |-> AbsentName, allowedCidr |-> <<>>]

Init ==
  /\ stackFile \in StackFiles
  /\ nDeploys = 0
  /\ cur = 0
  /\ pc = "idle"
  /\ local = NoLocal
  /\ tree = EmptyTree
  /\ config = [d \in Deployments |-> [existingVpcName |-> AbsentName, allowedCidr |-> Absent]]
  /\ lifecycle = [d \in Deployments |-> "Unused"]
  /\ error = [d \in Deployments |-> ""]
  /\ plan = [d \in Deployments |-> EmptyTree]
  /\ seen = [d \in Deployments |-> "none"]
  /\ account = {}
  /\ stackRes = {}
  /\ lastGood = {}
  /\ secretValue = "none"
  /\ assetRepo = {}

----------------------------------------------------------------------------
(* bin: const app = new cdk.App(); new McpAtlassianStack(app, ...)          *)

\* a new App holds no construct
FreshTree == EmptyTree

NewApp(ctx) ==
  /\ pc = "idle"
  /\ nDeploys < MaxDeploys
  /\ nDeploys' = nDeploys + 1
  /\ cur' = nDeploys + 1
  /\ config' = [config EXCEPT ![nDeploys + 1] = ctx]
  /\ lifecycle' = [lifecycle EXCEPT ![nDeploys + 1] = "Draft"]
  /\ tree' = FreshTree
  /\ local' = NoLocal
  /\ pc' = "context"
  /\ UNCHANGED <<stackFile, error, plan, seen, backend>>

\* this.node.tryGetContext('existingVpcName')
ContextExistingVpcName == config[cur].existingVpcName

\* this.node.tryGetContext('allowedCidr') ?? '10.0.0.0/16'
ContextAllowedCidr ==
  IF config[cur].allowedCidr.set THEN config[cur].allowedCidr.str
  ELSE DEFAULT_ALLOWED_CIDR

ReadContext ==
  /\ pc = "context"
  /\ local' = [existingVpcName |-> ContextExistingVpcName,
               allowedCidr |-> ContextAllowedCidr]
  /\ pc' = "vpc"
  /\ UNCHANGED <<stackFile, cur, tree, deploys, backend>>

\* if (existingVpcName): null, undefined and '' are falsy
Truthy(v) == v.set /\ v.str # ""

\* Mutant: the lookup names the VPC of the comment, not the one configured.
ImportedVpc_Hardcoded(name) ==
  [kind |-> "Imported", id |-> "ImportedVpc", name |-> "langbuilder-vpc",
   cidr |-> <<>>, maxAzs |-> 0, natGateways |-> 0, subnetConfiguration |-> {}]

\* ec2.Vpc.fromLookup(this, 'ImportedVpc', { vpcName: existingVpcName })
ImportedVpc(name) ==
  [kind |-> "Imported", id |-> "ImportedVpc", name |-> name, cidr |-> <<>>,
   maxAzs |-> 0, natGateways |-> 0, subnetConfiguration |-> {}]

\* new ec2.Vpc(this, 'McpVpc', { ... })
CreatedVpc ==
  [kind |-> "Created", id |-> "McpVpc", name |-> "mcp-atlassian-vpc",
   cidr |-> <<"1", "0", ".", "1", ".", "0", ".", "0", "/", "1", "6">>,
   maxAzs |-> 2, natGateways |-> 1,
   subnetConfiguration |->
     {[name |-> "mcp-public", subnetType |-> "PUBLIC", cidrMask |-> 24],
      [name |-> "mcp-private", subnetType |-> "PRIVATE_WITH_EGRESS", cidrMask |-> 24]}]

\* Mutant: the test is `existingVpcName != null`, so '' imports a VPC named ''.
SelectVpc_NullCheck(existingVpcName) ==
  IF existingVpcName.set THEN ImportedVpc(existingVpcName.str) ELSE CreatedVpc

\* Mutant: a VPC that already exists in the account is reused.
SelectVpc_Lookup(existingVpcName) ==
  IF Truthy(existingVpcName) THEN ImportedVpc(existingVpcName.str)
  ELSE IF \E r \in account : r.type = "AWS::EC2::VPC"
       THEN ImportedVpc("mcp-atlassian-vpc")
       ELSE CreatedVpc

\* the if/else that picks the VPC
SelectVpc(existingVpcName) ==
  IF Truthy(existingVpcName) THEN ImportedVpc(existingVpcName.str) ELSE CreatedVpc

\* The network resources a VPC construct declares: the VPC, one subnet per
\* configured tier and availability zone, and its NAT gateways.
NetworkResources(vpc) ==
  IF vpc.kind # "Created" THEN {}
  ELSE {[type |-> "AWS::EC2::VPC", tier |-> "", az |-> 0]}
       \cup {[type |-> "AWS::EC2::Subnet", tier |-> c.subnetType, az |-> z] :
               c \in vpc.subnetConfiguration, z \in 1..vpc.maxAzs}
       \cup {[type |-> "AWS::EC2::NatGateway", tier |-> "PUBLIC", az |-> z] :
               z \in 1..vpc.natGateways}

ResolveVpc ==
  /\ pc = "vpc"
  /\ LET vpc == SelectVpc(local.existingVpcName)
     IN  tree' = [tree EXCEPT
                    !.vpc = vpc,
                    !.constructs =
                       IF vpc.kind = "Created"
                       THEN @ \cup {Construct(vpc.id, "AWS::EC2::VPC", vpc.name, "")}
                       ELSE @]
  /\ pc' = IF stackFile = SharedPrivate THEN "secret" ELSE "ecr"
  /\ UNCHANGED <<stackFile, cur, local, deploys, backend>>

\* new secretsmanager.Secret(this, 'AtlassianCredentials', { ... })
CreateSecret ==
  /\ pc = "secret"
  /\ stackFile = SharedPrivate
  /\ tree' = [tree EXCEPT !.constructs = @ \cup
               {Described(Construct("AtlassianCredentials",
                                    "AWS::SecretsManager::Secret",
                                    "mcp-atlassian/credentials", ""),
                          SecretDescription)}]
  /\ pc' = "ecr"
  /\ UNCHANGED <<stackFile, cur, local, deploys, backend>>

\* removalPolicy of McpAtlassianRepo
RepoRemovalPolicy(file) == IF file = SharedPrivate THEN "RETAIN" ELSE "DESTROY"

AssetType == "DockerImageAsset"

\* new DockerImageAsset(this, 'McpAtlassianImage', { directory, file, platform })
\* The image is no resource of the stack: the deploy builds it and pushes it
\* to the ECR repository for CDK assets.
McpAtlassianImage ==
  [id |-> "McpAtlassianImage", type |-> AssetType, file |-> "Dockerfile",
   platform |-> "linux/amd64"]

\* new ecr.Repository(this, 'McpAtlassianRepo', { ... });
\* new DockerImageAsset(this, 'McpAtlassianImage', { ... })
CreateRepo ==
  /\ pc = "ecr"
  /\ tree' = [tree EXCEPT !.constructs = @ \cup
               {Construct("McpAtlassianRepo", "AWS::ECR::Repository",
                          "mcp-atlassian", RepoRemovalPolicy(stackFile))},
                          !.assets = @ \cup {McpAtlassianImage}]
  /\ pc' = "cluster"
  /\ UNCHANGED <<stackFile, cur, local, deploys, backend>>

\* new ecs.Cluster(this, 'McpCluster', { ... })
CreateCluster ==
  /\ pc = "cluster"
  /\ tree' = [tree EXCEPT !.constructs = @ \cup
               {Construct("McpCluster", "AWS::ECS::Cluster",
                          "mcp-atlassian-cluster", "")}]
  /\ pc' = "sg"
  /\ UNCHANGED <<stackFile, cur, local, deploys, backend>>

\* An ingress rule of a security group: the peer is a CIDR block or another
\* security group.
CidrRule(sg, cidr, port) ==
  [sg |-> sg, cidr |-> cidr, sourceSg |-> "", protocol |-> "tcp", port |-> port]
SgRule(sg, source, port) ==
  [sg |-> sg, cidr |-> <<>>, sourceSg |-> source, protocol |-> "tcp", port |-> port]

\* Mutant: the rule admits the default block, not the configured one.
McpIngressRule_Default(allowedCidr) ==
  CidrRule("McpSecurityGroup", DEFAULT_ALLOWED_CIDR, MCP_PORT)

\* mcpSG.addIngressRule(ec2.Peer.ipv4(allowedCidr), ec2.Port.tcp(MCP_PORT), ...)
McpIngressRule(allowedCidr) == CidrRule("McpSecurityGroup", allowedCidr, MCP_PORT)

\* new ec2.SecurityGroup(this, 'McpSecurityGroup', { ... })
McpSecurityGroup(file) ==
  Described(Construct("McpSecurityGroup", "AWS::EC2::SecurityGroup",
                      "mcp-atlassian-sg", ""),
            SgDescription(file))

\* new ec2.SecurityGroup(...); mcpSG.addIngressRule(...).  Peer.ipv4 throws on a
\* string it does not accept: the security group has been constructed by then,
\* the rule is not added, the constructor ends there and nothing is
\* synthesized.
CreateSecurityGroup ==
  /\ pc = "sg"
  /\ IF PeerIpv4Throws(local.allowedCidr)
     THEN /\ tree' = [tree EXCEPT
                        !.constructs = @ \cup {McpSecurityGroup(stackFile)}]
          /\ error' = [error EXCEPT ![cur] = "ConfigError"]
          /\ pc' = "idle"
          /\ cur' = 0
     ELSE /\ tree' = [tree EXCEPT
                        !.constructs = @ \cup {McpSecurityGroup(stackFile)},
                        !.ingress = @ \cup {McpIngressRule(local.allowedCidr)}]
          /\ pc' = "logs"
          /\ UNCHANGED <<cur, error>>
  /\ UNCHANGED <<stackFile, local, nDeploys, config, lifecycle, plan, seen, backend>>

\* new logs.LogGroup(this, 'McpLogGroup', { ... })
CreateLogGroup ==
  /\ pc = "logs"
  /\ tree' = [tree EXCEPT !.constructs = @ \cup
               {Construct("McpLogGroup", "AWS::Logs::LogGroup",
                          "/ecs/mcp-atlassian", "DESTROY")}]
  /\ pc' = "roles"
  /\ UNCHANGED <<stackFile, cur, local, deploys, backend>>

Grant(grantee, resource, access) ==
  [grantee |-> grantee, resource |-> resource, access |-> access]

\* Mutant: the secret is granted to the task role as well.
SecretGrants_TaskRole(file) ==
  IF file = SharedPrivate
  THEN {Grant("TaskExecutionRole", "AtlassianCredentials", "read"),
        Grant("TaskRole", "AtlassianCredentials", "read")}
  ELSE {}

\* atlassianSecret.grantRead(taskExecutionRole)
SecretGrants(file) ==
  IF file = SharedPrivate
  THEN {Grant("TaskExecutionRole", "AtlassianCredentials", "read")}
  ELSE {}

\* new iam.Role(this, 'TaskExecutionRole', ...); new iam.Role(this, 'TaskRole', ...)
CreateRoles ==
  /\ pc = "roles"
  /\ tree' = [tree EXCEPT
                !.constructs = @ \cup
                  {Construct("TaskExecutionRole", "AWS::IAM::Role", "", ""),
                   Construct("TaskRole", "AWS::IAM::Role", "", "")},
                !.grants = @ \cup
                  {Grant("TaskExecutionRole",
                         "service-role/AmazonECSTaskExecutionRolePolicy", "managed")}
                  \cup SecretGrants(stackFile)]
  /\ pc' = "taskdef"
  /\ UNCHANGED <<stackFile, cur, local, deploys, backend>>

\* Mutant: the per-request stack still injects the API token from the store.
ContainerSecrets_Leftover(file) ==
  IF file = SharedPrivate
  THEN {[name |-> n, secret |-> "AtlassianCredentials", field |-> n] :
          n \in {"JIRA_URL", "JIRA_USERNAME", "JIRA_API_TOKEN",
                 "CONFLUENCE_URL", "CONFLUENCE_USERNAME", "CONFLUENCE_API_TOKEN"}}
  ELSE {[name |-> "JIRA_API_TOKEN", secret |-> "AtlassianCredentials",
         field |-> "JIRA_API_TOKEN"]}

\* secrets: { NAME: ecs.Secret.fromSecretsManager(atlassianSecret, 'NAME'), ... }
ContainerSecrets(file) ==
  IF file = SharedPrivate
  THEN {[name |-> n, secret |-> "AtlassianCredentials", field |-> n] :
          n \in {"JIRA_URL", "JIRA_USERNAME", "JIRA_API_TOKEN",
                 "CONFLUENCE_URL", "CONFLUENCE_USERNAME", "CONFLUENCE_API_TOKEN"}}
  ELSE {}

\* environment: { ... }
ContainerEnvironment(file) ==
  IF file = PerRequestAlb
  THEN {[name |-> "ATLASSIAN_OAUTH_ENABLE", value |-> "true"],
        [name |-> "JIRA_URL", value |-> "https://cloudgeometry.atlassian.net"],
        [name |-> "CONFLUENCE_URL", value |-> "https://cloudgeometry.atlassian.net/wiki"]}
  ELSE {}

\* command: [...]
ContainerCommand(file) ==
  IF file = SharedPrivate
  THEN <<"--transport", "http", "--port", "9000">>
  ELSE <<"--transport", "streamable-http", "--host", "0.0.0.0", "--port", "9000">>

\* healthCheck: { command: wget http://localhost:9000/<path>, interval, ... }
ContainerHealthCheck(file) ==
  [path |-> IF file = SharedPrivate THEN "/mcp" ELSE "/healthz",
   interval |-> 30, timeout |-> 5, retries |-> 3, startPeriod |-> 15]

\* new ecs.FargateTaskDefinition(...); taskDef.addContainer('mcp-atlassian', ...)
CreateTaskDef ==
  /\ pc = "taskdef"
  /\ tree' = [tree EXCEPT
                !.constructs = @ \cup
                  {Construct("McpTaskDef", "AWS::ECS::TaskDefinition", "", "")},
                !.secrets = ContainerSecrets(stackFile),
                !.environment = ContainerEnvironment(stackFile),
                !.command = ContainerCommand(stackFile),
                !.healthCheck = ContainerHealthCheck(stackFile)]
  /\ pc' = "service"
  /\ UNCHANGED <<stackFile, cur, local, deploys, backend>>

\* circuitBreaker: { enable: true, rollback: true }
CircuitBreaker_NoRollback == [enable |-> TRUE, rollback |-> FALSE]

CircuitBreaker == [enable |-> TRUE, rollback |-> TRUE]

\* new ecs.FargateService(this, 'McpService', { ... })
CreateService ==
  /\ pc = "service"
  /\ tree' = [tree EXCEPT
                !.constructs = @ \cup
                  {Construct("McpService", "AWS::ECS::Service", "mcp-atlassian", "")},
                !.service = [name |-> "mcp-atlassian", desiredCount |-> 1,
                             securityGroups |-> {"McpSecurityGroup"},
                             subnetType |-> "PRIVATE_WITH_EGRESS",
                             circuitBreaker |-> CircuitBreaker,
                             namespace |-> "", cloudMapName |-> ""]]
  /\ pc' = IF stackFile = PerRequestAlb THEN "alb" ELSE "cloudmap"
  /\ UNCHANGED <<stackFile, cur, local, deploys, backend>>

\* Mutant: the listener is opened on the service port.
McpListener_ServicePort ==
  [lb |-> "McpAlb", port |-> MCP_PORT, protocol |-> "HTTP",
   targetPort |-> MCP_PORT, target |-> "McpService", healthCheckPath |-> "/healthz"]

\* alb.addListener('McpListener', ...); listener.addTargets('McpTargets', ...)
McpListener ==
  [lb |-> "McpAlb", port |-> LISTENER_PORT, protocol |-> "HTTP",
   targetPort |-> MCP_PORT, target |-> "McpService", healthCheckPath |-> "/healthz"]

\* service.connections.allowFrom(alb, ec2.Port.tcp(MCP_PORT), ...)
AlbIngressRule == SgRule("McpSecurityGroup", "McpAlb", MCP_PORT)

\* new elbv2.ApplicationLoadBalancer(this, 'McpAlb', ...) and its wiring
CreateAlb ==
  /\ pc = "alb"
  /\ stackFile = PerRequestAlb
  /\ tree' = [tree EXCEPT
                !.constructs = @ \cup
                  {Construct("McpAlb", "AWS::ElasticLoadBalancingV2::LoadBalancer",
                             "mcp-atlassian-alb", ""),
                   Construct("McpListener", "AWS::ElasticLoadBalancingV2::Listener",
                             "", "")},
                !.listeners = @ \cup {McpListener},
                !.ingress = @ \cup {AlbIngressRule}]
  /\ pc' = "cloudmap"
  /\ UNCHANGED <<stackFile, cur, local, deploys, backend>>

\* cluster.addDefaultCloudMapNamespace({ name: 'mcp.internal', vpc });
\* service.enableCloudMap({ name: 'atlassian' })
EnableCloudMap ==
  /\ pc = "cloudmap"
  /\ tree' = [tree EXCEPT
                !.constructs = @ \cup
                  {Construct("DefaultServiceDiscoveryNamespace",
                             "AWS::ServiceDiscovery::PrivateDnsNamespace",
                             "mcp.internal", "")},
                !.service = [@ EXCEPT !.namespace = "mcp.internal",
                                      !.cloudMapName = "atlassian"]]
  /\ pc' = "outputs"
  /\ UNCHANGED <<stackFile, cur, local, deploys, backend>>

\* A stack output; `port` is the number formatted into the value (0: none).
Output(key, value, port) == [key |-> key, value |-> value, port |-> port]

\* Mutant: the output carries the secret's content.
SecretArn_Unwrapped == secretValue

\* value: atlassianSecret.secretArn
SecretArn == "${AtlassianCredentials.Arn}"

\* new cdk.CfnOutput(this, 'SecretArn', ...): only the shared-credentials stack
SecretOutputs(file) ==
  IF file = SharedPrivate THEN {Output("SecretArn", SecretArn, 0)} ELSE {}

\* new cdk.CfnOutput(this, 'AlbEndpoint', ...): only the load-balanced stack
AlbOutputs(file) ==
  IF file = PerRequestAlb
  THEN {Output("AlbEndpoint", "http://${McpAlb.DNSName}", 0)}
  ELSE {}

\* the four (five) new cdk.CfnOutput(...) at the end of the constructor
CreateOutputs ==
  /\ pc = "outputs"
  /\ tree' = [tree EXCEPT !.outputs =
               SecretOutputs(stackFile) \cup AlbOutputs(stackFile) \cup
               {Output("ServiceDiscoveryEndpoint", "atlassian.mcp.internal", MCP_PORT),
                Output("EcrRepoUri", "${McpAtlassianRepo.RepositoryUri}", 0),
                Output("ClusterName", "${McpCluster}", 0)}]
  /\ pc' = "synth"
  /\ UNCHANGED <<stackFile, cur, local, deploys, backend>>

\* The constructor returned: the app is synthesized as the process exits.
Synth ==
  /\ pc = "synth"
  /\ plan' = [plan EXCEPT ![cur] = tree]
  /\ lifecycle' = [lifecycle EXCEPT ![cur] = "Resolved"]
  /\ seen' = [seen EXCEPT ![cur] = secretValue]
  /\ pc' = "idle"
  /\ cur' = 0
  /\ UNCHANGED <<stackFile, local, tree, nDeploys, config, error, backend>>

----------------------------------------------------------------------------
(* The provisioning backend (CloudFormation and ECS).  Its code is not in   *)
(* the repository: the actions follow the specification's state machine     *)
(* Draft -> Resolved -> Applying -> {Healthy | RolledBack}, with the hard    *)
(* abort on a naming collision, and the README's account of what a failed   *)
(* deploy leaves behind.  The constructor is synchronous and does no I/O,   *)
(* so a run of it is not interleaved with backend events: the backend acts  *)
(* between runs (pc = "idle").                                              *)

SecretType == "AWS::SecretsManager::Secret"

\* resources in the account that no stack manages
Orphans == account \ stackRes

Collides_Never(p) == FALSE

\* A planned resource with a fixed physical name that an orphan already holds.
Collides(p) ==
  \E r \in p.constructs, o \in Orphans :
     r.name # "" /\ o.type = r.type /\ o.name = r.name

\* A resource removed from a stack survives in the account when its removal
\* policy is RETAIN.
Survives(r) == r.removalPolicy = "RETAIN"

\* The single named deployment target (the stack id given in bin/).
Target == "McpAtlassianStack"

TargetBusy_Never == FALSE

\* The target has a deployment in flight: the backend serializes applies.
TargetBusy == \E e \in Deployments : lifecycle[e] = "Applying"

\* The operator submits a synthesized stack; the backend takes one at a time.
\* The deploy first builds the stack's image and pushes it to the repository
\* for CDK assets, then has the resources created.  A planned resource whose fixed name an orphan holds cannot be created: the
\* apply is marked with the conflict and creates nothing.
Submit(d) ==
  /\ pc = "idle"
  /\ lifecycle[d] = "Resolved"
  /\ ~TargetBusy
  /\ lifecycle' = [lifecycle EXCEPT ![d] = "Applying"]
  /\ assetRepo' = assetRepo \cup plan[d].assets
  /\ IF Collides(plan[d])
     THEN /\ error' = [error EXCEPT ![d] = "ApplyConflictError"]
          /\ UNCHANGED <<account, stackRes, lastGood, secretValue>>
     ELSE /\ account' = account \cup plan[d].constructs
          /\ stackRes' = stackRes \cup plan[d].constructs
          /\ secretValue' =
               IF \E r \in plan[d].constructs \ account : r.type = SecretType
               THEN "placeholder" ELSE secretValue
          /\ UNCHANGED <<error, lastGood>>
  /\ UNCHANGED <<stackFile, ctor, nDeploys, config, plan, seen>>

\* The hard abort: an apply that met a naming collision ends without touching
\* the stack or the account ("already exists").
ApplyAbort(d) ==
  /\ pc = "idle"
  /\ lifecycle[d] = "Applying"
  /\ error[d] = "ApplyConflictError"
  /\ lifecycle' = [lifecycle EXCEPT ![d] = "Aborted"]
  /\ UNCHANGED <<stackFile, ctor, nDeploys, config, error, plan, seen, backend>>

\* The README's "Common issues" table: symptom, cause, fix.
CommonIssues ==
  {[symptom |-> "Container keeps restarting (circuit breaker)",
    cause   |-> "Placeholder credentials in Secrets Manager",
    fix     |-> "Run Step 5 + Step 6"],
   [symptom |-> "ECONNREFUSED from LangBuilder",
    cause   |-> "LangBuilder not in same VPC, or wrong URL",
    fix     |-> "Check network connectivity"],
   [symptom |-> "Health check failing",
    cause   |-> "Server not binding to 0.0.0.0",
    fix     |-> "Verify --host 0.0.0.0 in task definition command"],
   [symptom |-> "Stack deploy fails with \"already exists\"",
    cause   |-> "Orphaned ECR repo from previous failed deploy",
    fix     |-> "Delete the ECR repo manually"],
   [symptom |-> "Stack deploy fails with \"non-ASCII\"",
    cause   |-> "Special characters in resource descriptions",
    fix     |-> "Ensure all strings in CDK code are ASCII-only"]}

\* The fixes the table gives for a cause.
Remediation(cause) == {row.fix : row \in {r \in CommonIssues : r.cause = cause}}

\* Every character of the text is an ASCII character.
AsciiOnly(text) == \A i \in 1..Len(text) : text[i] <= 127

\* The stack's resources can be created: no resource description holds a
\* character outside ASCII ("Stack deploy fails with non-ASCII").
DescriptionsAccepted(p) == \A r \in p.constructs : AsciiOnly(r.description)

\* The container can pass its health check: the stack's resources can be
\* created, its ingress rules are ones EC2 accepts, and credentials it reads
\* from the store are real ones.
HealthPossible(p) ==
  /\ DescriptionsAccepted(p)
  /\ \A r \in p.ingress : r.sourceSg = "" => ValidIPv4Cidr(r.cidr)
  /\ p.secrets # {} => secretValue = "real"

\* A resource of the stack cannot be created: the deploy fails and the backend
\* removes what it had created, back to the last healthy topology.  Resources
\* without a dependency between them are created in no fixed order, so a
\* retained resource may or may not have been made when the failure came.
ApplyFail(d) ==
  /\ pc = "idle"
  /\ lifecycle[d] = "Applying"
  /\ error[d] = ""
  /\ ~DescriptionsAccepted(plan[d])
  /\ error' = [error EXCEPT ![d] = "ApplyError"]
  /\ lifecycle' = [lifecycle EXCEPT ![d] = "RolledBack"]
  /\ \E made \in SUBSET {r \in stackRes \ lastGood : Survives(r)} :
       account' = (account \ (stackRes \ lastGood)) \cup made
  /\ stackRes' = lastGood
  /\ secretValue' =
       IF \E r \in stackRes \ lastGood : r.type = SecretType
       THEN "none" ELSE secretValue
  /\ UNCHANGED <<stackFile, ctor, nDeploys, config, plan, seen, lastGood, assetRepo>>

\* The service became healthy within the deployment window.
ApplyHealthy(d) ==
  /\ pc = "idle"
  /\ lifecycle[d] = "Applying"
  /\ error[d] = ""
  /\ HealthPossible(plan[d])
  /\ lifecycle' = [lifecycle EXCEPT ![d] = "Healthy"]
  /\ account' = account \ {r \in stackRes \ plan[d].constructs : ~Survives(r)}
  /\ stackRes' = plan[d].constructs
  /\ lastGood' = plan[d].constructs
  /\ UNCHANGED <<stackFile, ctor, nDeploys, config, error, plan, seen, secretValue,
               assetRepo>>

\* The service was created and the deployment window passed without a
\* healthy one (HealthCheckTimeoutError): with the circuit breaker's rollback enabled the
\* backend returns the stack to the last healthy topology.
ApplyTimeout(d) ==
  /\ pc = "idle"
  /\ lifecycle[d] = "Applying"
  /\ error[d] = ""
  /\ DescriptionsAccepted(plan[d])
  /\ error' = [error EXCEPT ![d] = "HealthCheckTimeoutError"]
  /\ IF plan[d].service.circuitBreaker.enable /\ plan[d].service.circuitBreaker.rollback
     THEN /\ lifecycle' = [lifecycle EXCEPT ![d] = "RolledBack"]
          /\ account' = account \ {r \in stackRes \ lastGood : ~Survives(r)}
          /\ stackRes' = lastGood
          /\ secretValue' =
               IF \E r \in stackRes \ lastGood : r.type = SecretType
               THEN "none" ELSE secretValue
     ELSE /\ lifecycle' = [lifecycle EXCEPT ![d] = "Failed"]
          /\ UNCHANGED <<account, stackRes, secretValue>>
  /\ UNCHANGED <<stackFile, ctor, nDeploys, config, plan, seen, lastGood, assetRepo>>

\* aws secretsmanager put-secret-value --secret-id mcp-atlassian/credentials
PutSecretValue ==
  /\ pc = "idle"
  /\ \E r \in account : r.type = SecretType
  /\ secretValue = "placeholder"
  /\ secretValue' = "real"
  /\ UNCHANGED <<stackFile, ctor, deploys, account, stackRes, lastGood, assetRepo>>

RepoType == "AWS::ECR::Repository"

\* npx cdk destroy: the stack's resources are deleted, except those whose
\* removal policy retains them; the stack then manages nothing.  What the
\* deploy pushed to the repository for CDK assets is no resource of the stack
\* and stays.
Teardown ==
  /\ pc = "idle"
  /\ ~TargetBusy
  /\ stackRes # {}
  /\ account' = account \ {r \in stackRes : ~Survives(r)}
  /\ stackRes' = {}
  /\ lastGood' = {}
  /\ secretValue' =
       IF \E r \in stackRes : r.type = SecretType /\ ~Survives(r)
       THEN "none" ELSE secretValue
  /\ UNCHANGED <<stackFile, ctor, deploys, assetRepo>>

\* aws ecr delete-repository --repository-name mcp-atlassian --force
DeleteRepository ==
  /\ pc = "idle"
  /\ \E o \in Orphans : o.type = RepoType /\ o.name = "mcp-atlassian"
  /\ account' = {r \in account : ~(r.type = RepoType /\ r.name = "mcp-atlassian")}
  /\ UNCHANGED <<stackFile, ctor, deploys, stackRes, lastGood, secretValue, assetRepo>>

----------------------------------------------------------------------------

Next ==
  \/ \E ctx \in Contexts : NewApp(ctx)
  \/ ReadContext
  \/ ResolveVpc
  \/ CreateSecret
  \/ CreateRepo
  \/ CreateCluster
  \/ CreateSecurityGroup
  \/ CreateLogGroup
  \/ CreateRoles
  \/ CreateTaskDef
  \/ CreateService
  \/ CreateAlb
  \/ EnableCloudMap
  \/ CreateOutputs
  \/ Synth
  \/ \E d \in Deployments : Submit(d)
  \/ \E d \in Deployments : ApplyAbort(d)
  \/ \E d \in Deployments : ApplyFail(d)
  \/ \E d \in Deployments : ApplyHealthy(d)
  \/ \E d \in Deployments : ApplyTimeout(d)
  \/ PutSecretValue
  \/ Teardown
  \/ DeleteRepository

Spec == Init /\ [][Next]_vars

\* The constructor is straight-line synchronous code: once started it runs
\* to its end.  The security-group statement is left out of this action and
\* its fairness is written out in FairSpec.
ConstructorStep ==
  \/ ReadContext \/ ResolveVpc \/ CreateSecret \/ CreateRepo \/ CreateCluster
  \/ CreateLogGroup \/ CreateRoles \/ CreateTaskDef \/ CreateService
  \/ CreateAlb \/ EnableCloudMap \/ CreateOutputs \/ Synth

\* The deployment window is finite: an apply that has not become healthy is
\* ended by the backend, by timeout, abort or failure.
BackendSettles ==
  \E d \in Deployments : ApplyTimeout(d) \/ ApplyAbort(d) \/ ApplyFail(d)

\* CreateSecurityGroup is enabled exactly when pc = "sg" and every step of it
\* leaves pc = "sg", so its weak fairness is []<>(pc # "sg").
FairSpec ==
  /\ Spec
  /\ WF_vars(ConstructorStep)
  /\ []<>(pc # "sg")
  /\ WF_vars(BackendSettles)

----------------------------------------------------------------------------
(* The DeploymentConfig a stack version stands for.                         *)

\* Secrets Manager credentials, or "Per-request auth mode"
AuthMode(file) ==
  IF file = SharedPrivate THEN "shared-credentials" ELSE "per-request-oauth"

\* "Application Load Balancer - public internet access", or none
ExposureMode(file) == IF file = PerRequestAlb THEN "public-alb" ELSE "private-only"

\* deployments whose resolution produced a resource specification
ResolvedDeployments == {d \in Deployments : lifecycle[d] \notin {"Unused", "Draft"}}

\* Every construct tree in which the network has been decided: the synthesized
\* ones and the one under construction, each with the context it is built from.
NetworkDecided ==
  {[cfg |-> config[d], t |-> plan[d]] : d \in ResolvedDeployments}
  \cup (IF cur # 0 /\ pc \notin {"context", "vpc"}
        THEN {[cfg |-> config[cur], t |-> tree]} ELSE {})

\* Every construct tree, finished or not.
AllTrees == {plan[d] : d \in ResolvedDeployments} \cup (IF cur # 0 THEN {tree} ELSE {})

NetworkTypes == {"AWS::EC2::VPC", "AWS::EC2::Subnet", "AWS::EC2::NatGateway"}

\* the CIDR a context asks for: the one given, else 10.0.0.0/16
RequestedCidr(cfg) ==
  IF cfg.allowedCidr.set THEN cfg.allowedCidr.str
  ELSE <<"1", "0", ".", "0", ".", "0", ".", "0", "/", "1", "6">>

----------------------------------------------------------------------------
(* Claims                                                                   *)

\* C1: whenever existingVpcName is set and non-empty, the network is
\* Imported with exactly that name and no VPC, subnet or NAT gateway is
\* declared, in both stack versions and whatever allowedCidr is.
C1_NamedVpcIsImported ==
  \A x \in NetworkDecided :
     (x.cfg.existingVpcName.set /\ x.cfg.existingVpcName.str # "") =>
        /\ x.t.vpc.kind = "Imported"
        /\ x.t.vpc.name = x.cfg.existingVpcName.str
        /\ NetworkResources(x.t.vpc) = {}
        /\ \A c \in x.t.constructs : c.type \notin NetworkTypes

C1_Witness ==
  \E d \in Deployments :
     /\ lifecycle[d] = "Resolved"
     /\ config[d].existingVpcName = [set |-> TRUE, str |-> "shared-vpc"]
     /\ config[d].allowedCidr = Value(Cidr_10_2)
     /\ plan[d].vpc.name = "shared-vpc"
     /\ stackFile = PerRequestAlb

\* C2: whenever existingVpcName is absent or empty, exactly one Created
\* network is declared: two availability zones, a public and a
\* private-with-egress subnet in each, one NAT gateway; a tree never holds
\* both an imported and a created network.
C2_UnnamedVpcIsCreated ==
  \A x \in NetworkDecided :
     LET net == NetworkResources(x.t.vpc)
         subnets == {r \in net : r.type = "AWS::EC2::Subnet"}
     IN  /\ (~x.cfg.existingVpcName.set \/ x.cfg.existingVpcName.str = "") =>
              /\ x.t.vpc.kind = "Created"
              /\ Cardinality({c \in x.t.constructs : c.type = "AWS::EC2::VPC"}) = 1
              /\ Cardinality({r \in net : r.type = "AWS::EC2::VPC"}) = 1
              /\ {r.az : r \in subnets} = {1, 2}
              /\ \A z \in {1, 2} :
                   {r.tier : r \in {q \in subnets : q.az = z}}
                     = {"PUBLIC", "PRIVATE_WITH_EGRESS"}
              /\ Cardinality(subnets) = 4
              /\ Cardinality({r \in net : r.type = "AWS::EC2::NatGateway"}) = 1
         /\ x.t.vpc.kind = "Imported" =>
              /\ net = {}
              /\ \A c \in x.t.constructs : c.type \notin NetworkTypes

C2_Witness ==
  \E d \in Deployments :
     /\ lifecycle[d] = "Resolved"
     /\ config[d].existingVpcName = [set |-> TRUE, str |-> ""]
     /\ plan[d].vpc.kind = "Created"
     /\ Cardinality(NetworkResources(plan[d].vpc)) = 6

\* C3: in the per-request-oauth stack no tree ever declares a secret, grants
\* access to one or injects one into the container, and a synthesized stack
\* passes exactly the enable flag and the two base URLs as plain environment.
C3_PerRequestHoldsNoCredentials ==
  AuthMode(stackFile) = "per-request-oauth" =>
     /\ \A t \in AllTrees :
          /\ \A c \in t.constructs : c.type # SecretType
          /\ \A g \in t.grants : g.resource # "AtlassianCredentials"
          /\ t.secrets = {}
     /\ \A d \in ResolvedDeployments :
          /\ {e.name : e \in plan[d].environment}
               = {"ATLASSIAN_OAUTH_ENABLE", "JIRA_URL", "CONFLUENCE_URL"}
          /\ Cardinality(plan[d].environment) = 3

C3_Witness ==
  /\ stackFile = PerRequestAlb
  /\ \E d \in Deployments :
       /\ lifecycle[d] = "Healthy"
       /\ plan[d].secrets = {}
       /\ [name |-> "ATLASSIAN_OAUTH_ENABLE", value |-> "true"] \in plan[d].environment

\* C4: a synthesized shared-credentials stack declares exactly one secret,
\* and the identities granted access to it are exactly the execution role:
\* the task role is granted nothing on it.
C4_OnlyExecutionRoleReadsSecret ==
  AuthMode(stackFile) = "shared-credentials" =>
     \A d \in ResolvedDeployments :
        LET stores == {c \in plan[d].constructs : c.type = SecretType}
        IN  /\ Cardinality(stores) = 1
            /\ \A c \in stores :
                 {g.grantee : g \in {h \in plan[d].grants : h.resource = c.id}}
                   = {"TaskExecutionRole"}
            /\ \A g \in plan[d].grants :
                 g.grantee = "TaskRole" => g.resource \notin {c.id : c \in stores}
            /\ \A e \in plan[d].secrets : e.secret \in {c.id : c \in stores}

C4_Witness ==
  /\ stackFile = SharedPrivate
  /\ \E d \in Deployments :
       /\ lifecycle[d] = "Resolved"
       /\ Grant("TaskExecutionRole", "AtlassianCredentials", "read") \in plan[d].grants
       /\ Construct("TaskRole", "AWS::IAM::Role", "", "") \in plan[d].constructs

LbTypes ==
  {"AWS::ElasticLoadBalancingV2::LoadBalancer", "AWS::ElasticLoadBalancingV2::Listener"}

\* C5: a synthesized public-alb stack has a load balancer whose listener is
\* on port 80, not the service port 9000, and forwards to the service on
\* 9000; a synthesized private-only stack has no load balancer, no listener
\* and no AlbEndpoint output.
C5_ExposureModesExclusive ==
  \A d \in ResolvedDeployments :
     /\ ExposureMode(stackFile) = "public-alb" =>
          /\ \E c \in plan[d].constructs :
               c.type = "AWS::ElasticLoadBalancingV2::LoadBalancer"
          /\ plan[d].listeners # {}
          /\ \A l \in plan[d].listeners :
               /\ l.port = 80
               /\ l.port # 9000
               /\ l.targetPort = 9000
               /\ l.target = "McpService"
               /\ \E c \in plan[d].constructs :
                    c.id = l.lb /\ c.type = "AWS::ElasticLoadBalancingV2::LoadBalancer"
     /\ ExposureMode(stackFile) = "private-only" =>
          /\ \A c \in plan[d].constructs : c.type \notin LbTypes
          /\ plan[d].listeners = {}
          /\ \A o \in plan[d].outputs : o.key # "AlbEndpoint"

C5_Witness ==
  /\ stackFile = PerRequestAlb
  /\ \E d \in Deployments :
       /\ lifecycle[d] = "Applying"
       /\ \E l \in plan[d].listeners : l.port = 80 /\ l.targetPort = 9000
       /\ \E o \in plan[d].outputs : o.key = "AlbEndpoint"

\* C6 as claimed: in every synthesized stack, of either exposure mode, every
\* ingress rule of the service's security group is TCP 9000 from allowedCidr.
C6_OnlyAllowedCidrAdmitted ==
  \A d \in ResolvedDeployments :
     \A r \in {q \in plan[d].ingress : q.sg \in plan[d].service.securityGroups} :
        /\ r.protocol = "tcp"
        /\ r.port = 9000
        /\ r.sourceSg = ""
        /\ r.cidr = RequestedCidr(config[d])

\* C6 (amended): every ingress rule of the service's security group is TCP
\* on port 9000; the rule for allowedCidr is always there; private-only has
\* no other rule, and public-alb has exactly one more, whose source is the
\* load balancer's security group.
C6_IngressOnlyMcpPort ==
  \A d \in ResolvedDeployments :
     LET rules == {q \in plan[d].ingress : q.sg \in plan[d].service.securityGroups}
         fromCidr == {q \in rules : q.sourceSg = ""}
         fromSg == {q \in rules : q.sourceSg # ""}
     IN  /\ plan[d].service.securityGroups = {"McpSecurityGroup"}
         /\ \A r \in rules : r.protocol = "tcp" /\ r.port = 9000
         /\ {r.cidr : r \in fromCidr} = {RequestedCidr(config[d])}
         /\ ExposureMode(stackFile) = "private-only" => fromSg = {}
         /\ ExposureMode(stackFile) = "public-alb" =>
              {r.sourceSg : r \in fromSg} = {"McpAlb"}

C6_Witness ==
  /\ stackFile = PerRequestAlb
  /\ \E d \in Deployments :
       /\ lifecycle[d] = "Resolved"
       /\ config[d].allowedCidr = Value(Cidr_10_2)
       /\ Cardinality(plan[d].ingress) = 2
       /\ \E r \in plan[d].ingress : r.sourceSg = "McpAlb"
       /\ \E r \in plan[d].ingress : r.cidr = Cidr_10_2

\* C7: two resolutions of the same context give the same result, whatever
\* was resolved or deployed in between: the same resource specification, or
\* the same error.
C7_ResolutionIsAFunctionOfConfig ==
  \A d1, d2 \in Deployments :
     (/\ config[d1] = config[d2]
      /\ lifecycle[d1] # "Unused" /\ lifecycle[d2] # "Unused"
      /\ cur # d1 /\ cur # d2) =>
        /\ (d1 \in ResolvedDeployments) = (d2 \in ResolvedDeployments)
        /\ plan[d1] = plan[d2]
        /\ (error[d1] = "ConfigError") = (error[d2] = "ConfigError")

C7_Witness ==
  /\ lifecycle[1] = "Healthy"
  /\ lifecycle[2] = "Resolved"
  /\ config[1] = config[2]
  /\ account # {}
  /\ plan[2] = plan[1]
  /\ plan[2].vpc.kind = "Created"

\* C8 as claimed: a deployment whose allowedCidr is not a valid IPv4 CIDR
\* stays in Draft with no resource specification.
C8_MalformedCidrStaysDraft ==
  \A d \in Deployments :
     (lifecycle[d] # "Unused" /\ ~ValidIPv4Cidr(RequestedCidr(config[d]))) =>
        /\ lifecycle[d] = "Draft"
        /\ plan[d] = EmptyTree

\* C9 as claimed: once no apply is in flight, the resources that exist are
\* exactly the last healthy topology; a rollback leaves nothing else behind.
C9_RollbackRestoresLastGood ==
  (\A d \in Deployments : lifecycle[d] # "Applying") => account = lastGood

CredentialValues == {"placeholder", "real"}

\* C10: a synthesized stack has a SecretArn output exactly in
\* shared-credentials mode; no output value is the store's content; and two
\* resolutions of the same context have the same outputs whatever the store
\* held when each was made.
C10_OutputsCarryNoCredential ==
  /\ \A d \in ResolvedDeployments :
       /\ (\E o \in plan[d].outputs : o.key = "SecretArn")
            <=> (AuthMode(stackFile) = "shared-credentials")
       /\ \A o \in plan[d].outputs :
            /\ o.value \notin CredentialValues
            /\ o.key = "SecretArn" => o.value = "${AtlassianCredentials.Arn}"
  /\ \A d1, d2 \in ResolvedDeployments :
       config[d1] = config[d2] => plan[d1].outputs = plan[d2].outputs

C10_Witness ==
  /\ stackFile = SharedPrivate
  /\ lifecycle[1] \notin {"Unused", "Draft"}
  /\ lifecycle[2] \notin {"Unused", "Draft"}
  /\ config[1] = config[2]
  /\ seen[1] = "none"
  /\ seen[2] = "real"
  /\ \E o \in plan[2].outputs : o.key = "SecretArn"

----------------------------------------------------------------------------
\* Deployment d is being applied with nothing in its way that its invoker
\* controls: no naming collision, a well-formed source range, and real
\* credentials in the store where the stack reads one.
ReadyToBecomeHealthy(d) ==
  /\ lifecycle[d] = "Applying"
  /\ error[d] = ""
  /\ \A r \in plan[d].ingress : r.sourceSg = "" => ValidIPv4Cidr(r.cidr)
  /\ plan[d].secrets # {} => secretValue = "real"

\* C11 as stated: a stack of either variant can be deployed, and a teardown
\* of it removes everything the deployment created except the image registry:
\* each resource of the stack is left in the account exactly when its removal
\* policy is RETAIN, that is exactly the registry of the shared-credentials
\* private-only stack (the per-request public-ALB stack destroys its
\* registry), and nothing else that a deploy made is left anywhere.
C11_TeardownKeepsOnlyRetainedRegistry ==
  /\ [](\A d \in ResolvedDeployments : \A r \in plan[d].constructs :
          r.removalPolicy = "RETAIN"
            <=> (r.type = RepoType /\ stackFile = SharedPrivate))
  /\ [][Teardown =>
         \A r \in stackRes :
            /\ r \in account' <=> r.removalPolicy = "RETAIN"
            /\ r \in account' <=> (r.type = RepoType /\ stackFile = SharedPrivate)]_vars
  /\ [][Teardown => \A x \in account' \cup assetRepo' : x.type = RepoType]_vars
  /\ [](\A d \in Deployments :
          (stackFile = SharedPrivate /\ ReadyToBecomeHealthy(d))
             => HealthPossible(plan[d]))

----------------------------------------------------------------------------
\* The lifecycle steps of the specification's state machine; "Unused" is a
\* deployment that has not been started.
MachineSteps ==
  {<<"Unused", "Draft">>, <<"Draft", "Resolved">>, <<"Resolved", "Applying">>,
   <<"Applying", "Healthy">>, <<"Applying", "RolledBack">>}

AbortStep == <<"Applying", "Aborted">>

MovesAlong(steps) ==
  \A d \in Deployments :
     lifecycle'[d] # lifecycle[d] => <<lifecycle[d], lifecycle'[d]>> \in steps

\* C12 as stated: a deployment moves only along Draft -> Resolved -> Applying
\* -> {Healthy | RolledBack}, and every deployment that enters Applying
\* eventually ends in Healthy or RolledBack.
C12_EndsHealthyOrRolledBack ==
  /\ [][MovesAlong(MachineSteps)]_vars
  /\ \A d \in Deployments :
       (lifecycle[d] = "Applying") ~> (lifecycle[d] \in {"Healthy", "RolledBack"})

\* C12 amended: a deployment moves only along Draft -> Resolved -> Applying
\* -> {Healthy | RolledBack | Aborted}, where Aborted is the hard abort on a
\* naming collision; no state is skipped, the three end states have no
\* outgoing step, and every deployment that enters Applying eventually ends
\* in exactly one of them.
C12_EndsHealthyRolledBackOrAborted ==
  /\ [][MovesAlong(MachineSteps \cup {AbortStep})]_vars
  /\ \A d \in Deployments :
       (lifecycle[d] = "Applying")
          ~> (lifecycle[d] \in {"Healthy", "RolledBack", "Aborted"})

C12_Witness ==
  \E d, e \in Deployments :
     /\ lifecycle[d] \in {"Healthy", "RolledBack"}
     /\ lifecycle[e] = "Aborted"
     /\ error[e] = "ApplyConflictError"

----------------------------------------------------------------------------
\* The cause the README names for a deploy that fails with "already exists".
ConflictCause == "Orphaned ECR repo from previous failed deploy"

\* An orphan holds the fixed name of a resource that deployment d plans.
OrphanHoldsName(d) ==
  \E r \in plan[d].constructs, o \in account \ stackRes :
     r.name # "" /\ o.type = r.type /\ o.name = r.name

\* C13: an apply that meets a naming collision with an orphaned resource
\* ends in the hard abort, reported as ApplyConflictError with the hint to
\* remove the conflicting resource, a fix the README gives for no other
\* cause; the report differs from that of a health-check timeout and of a
\* failed deploy, and the abort changes neither the stack nor the account
\* (no rollback is run).
C13_CollisionIsAHardAbort ==
  /\ [](\A d \in Deployments :
         /\ lifecycle[d] = "Aborted" =>
              /\ error[d] = "ApplyConflictError"
              /\ Remediation(ConflictCause) = {"Delete the ECR repo manually"}
              /\ \A row \in CommonIssues :
                   row.cause # ConflictCause
                     => row.fix \notin Remediation(ConflictCause)
         /\ lifecycle[d] \in {"RolledBack", "Failed"} =>
              error[d] \in {"HealthCheckTimeoutError", "ApplyError"}
         /\ error[d] = "ApplyConflictError" =>
              lifecycle[d] \in {"Applying", "Aborted"})
  /\ [][\A d \in Deployments :
         /\ (lifecycle[d] = "Resolved" /\ lifecycle'[d] = "Applying"
                /\ OrphanHoldsName(d))
              => error'[d] = "ApplyConflictError"
         /\ (lifecycle[d] = "Applying" /\ error[d] = "ApplyConflictError"
                /\ lifecycle'[d] # "Applying")
              => (lifecycle'[d] = "Aborted" /\ UNCHANGED backend)]_vars

C13_Witness ==
  \E d, e \in Deployments :
     /\ lifecycle[e] = "RolledBack"
     /\ lifecycle[d] = "Aborted"
     /\ error[d] = "ApplyConflictError"
     /\ stackRes = {}
     /\ \E o \in account : o.type = RepoType /\ o.name = "mcp-atlassian"

----------------------------------------------------------------------------
\* C14: on the deployment target at most one deployment is in Applying at
\* any time; a further apply attempt waits until the one in flight has ended.
C14_OneApplyInFlight ==
  \A d, e \in Deployments :
     (lifecycle[d] = "Applying" /\ lifecycle[e] = "Applying") => d = e

C14_Witness ==
  \E d, e \in Deployments :
     /\ d # e
     /\ lifecycle[d] = "Applying"
     /\ lifecycle[e] = "Resolved"
     /\ ~ENABLED Submit(e)

----------------------------------------------------------------------------
\* A shared-credentials apply is in flight while the credential store holds
\* the seeded placeholders.
ApplyingOnPlaceholders(d) ==
  /\ AuthMode(stackFile) = "shared-credentials"
  /\ lifecycle[d] = "Applying"
  /\ secretValue = "placeholder"

\* C15 as stated: a shared-credentials deployment whose store holds the
\* placeholders resolves without an error, never becomes Healthy while the
\* placeholders remain, and ends RolledBack through the health-check timeout
\* (HealthCheckTimeoutError), not by the hard abort; a deployment that
\* creates the stack afresh, the first one of a target included, starts with
\* the placeholders.
C15_PlaceholdersEndInRollback ==
  /\ [](\A d \in Deployments :
         /\ (lifecycle[d] = "Resolved" /\ seen[d] = "placeholder") => error[d] = ""
         /\ ApplyingOnPlaceholders(d) => error[d] = "")
  /\ [][\A d \in Deployments :
         /\ ApplyingOnPlaceholders(d) =>
              /\ lifecycle'[d] \in {"Applying", "RolledBack"}
              /\ lifecycle'[d] = "RolledBack" =>
                   error'[d] = "HealthCheckTimeoutError"
         /\ (AuthMode(stackFile) = "shared-credentials"
                /\ lifecycle[d] = "Resolved" /\ lifecycle'[d] = "Applying"
                /\ stackRes = {} /\ ~OrphanHoldsName(d))
              => secretValue' = "placeholder"]_vars
  /\ \A d \in Deployments :
       ApplyingOnPlaceholders(d)
          ~> (lifecycle[d] = "RolledBack" \/ secretValue = "real")

----------------------------------------------------------------------------
\* The address block a CIDR string denotes.  Addresses are kept as their four
\* octets, so that no 32-bit value is ever computed.
CidrOctets(s) ==
  LET addr == Split(Split(s, "/")[1], ".")
  IN  [k \in 1..4 |-> Num(addr[k])]

CidrPrefix(s) == Num(Split(s, "/")[2])

\* How many bits of octet k belong to a prefix of length p.
PrefixBitsIn(p, k) ==
  IF p >= 8 * k THEN 8 ELSE IF p <= 8 * (k - 1) THEN 0 ELSE p - 8 * (k - 1)

\* Octet o with all but its leading n bits cleared.
MaskOctet(o, n) == (o \div 2^(8 - n)) * 2^(8 - n)

\* The network address of the block: the address as written with its host
\* bits cleared.
CidrNetwork(s) ==
  [k \in 1..4 |-> MaskOctet(CidrOctets(s)[k], PrefixBitsIn(CidrPrefix(s), k))]

\* Every address of block inner is an address of block outer.
CidrWithin(inner, outer) ==
  /\ CidrPrefix(inner) >= CidrPrefix(outer)
  /\ \A k \in 1..4 :
       MaskOctet(CidrOctets(inner)[k], PrefixBitsIn(CidrPrefix(outer), k))
         = CidrNetwork(outer)[k]

\* C16 as stated: with neither allowedCidr nor existingVpcName configured
\* the ingress rule's source is the default 10.0.0.0/16, and every address
\* it admits lies inside the address block of the VPC the stack creates.
C16_DefaultCidrIsVpcInternal ==
  \A d \in ResolvedDeployments :
     (~config[d].allowedCidr.set /\ ~config[d].existingVpcName.set) =>
        /\ plan[d].vpc.kind = "Created"
        /\ \A r \in plan[d].ingress :
             r.sourceSg = "" =>
                /\ r.cidr = DEFAULT_ALLOWED_CIDR
                /\ CidrWithin(r.cidr, plan[d].vpc.cidr)

----------------------------------------------------------------------------
\* The fixed-name registry exists in the account outside any stack.
RegistryOrphaned ==
  \E o \in account \ stackRes : o.type = RepoType /\ o.name = "mcp-atlassian"

====
